---- MODULE Spec2Model ----
(***************************************************************************)
(* tron-utils (src/tron-utils/src/main.rs): the Base58Check address codec, *)
(* the key-to-address derivation, the constructor parameter encoder, the   *)
(* transaction signer and the deploy_contract run that wires them.         *)
(*                                                                         *)
(* Text (&str / String) is a sequence of character codes, a byte vector a  *)
(* sequence of 0..255.  A Result is a record with a field ok; an Err       *)
(* carries the message of the anyhow error, a panic is the outcome         *)
(* "panic".                                                                *)
(***************************************************************************)
EXTENDS Integers, Sequences, FiniteSets, TLC

\* ------------------------------------------------------------------------
\* Bounds of the model
\* ------------------------------------------------------------------------
\* longest payload drawn for the codec round trip
MaxLen == 3
\* most owners passed to encode_constructor_params
MaxOwners == 3
\* longest free text handed to the decoder
MaxTextLen == 2

\* ------------------------------------------------------------------------
\* Characters and small helpers
\* ------------------------------------------------------------------------
\* '0', 'x', ',' and ' '
Ch0 == 48
ChX == 120
ChComma == 44
ChSpace == 32

\* F of the value of x: x is computed first, then F of it
Then(x, F(_)) == CHOOSE y \in {F(v) : v \in {x}} : TRUE

\* A sequence given element by element, as a tuple
Tuple(f) == f \o <<>>

Reverse(s) == Tuple([i \in 1..Len(s) |-> s[Len(s) + 1 - i]])

Repeat(x, n) == Tuple([i \in 1..n |-> x])

RECURSIVE Flatten(_)
Flatten(ss) == IF ss = <<>> THEN <<>> ELSE Head(ss) \o Flatten(Tail(ss))

RECURSIVE LeadingCount(_, _)
LeadingCount(s, x) ==
    IF s # <<>> /\ Head(s) = x THEN 1 + LeadingCount(Tail(s), x) ELSE 0

Ok(v) == [ok |-> TRUE, value |-> v]
Err(msg) == [ok |-> FALSE, error |-> msg]
Panic == [ok |-> FALSE, error |-> "panic"]

\* r? : the value of an Ok goes on, an Err is returned as it is
Try(r, F(_)) == IF r.ok THEN F(r.value) ELSE r

\* r.context(msg)?
TryContext(r, msg, F(_)) == IF r.ok THEN F(r.value) ELSE Err(msg)

\* &s[n..]
DropFirst(s, n) == SubSeq(s, n + 1, Len(s))

\* ------------------------------------------------------------------------
\* hex::encode / hex::decode
\* ------------------------------------------------------------------------
HexDigit(n) == IF n < 10 THEN 48 + n ELSE 87 + n

HexVal(c) ==
    IF c >= 48 /\ c <= 57 THEN c - 48
    ELSE IF c >= 97 /\ c <= 102 THEN c - 87
    ELSE IF c >= 65 /\ c <= 70 THEN c - 55
    ELSE -1

hex_encode(bytes) ==
    Tuple([i \in 1..(2 * Len(bytes)) |->
        IF i % 2 = 1 THEN HexDigit(bytes[(i + 1) \div 2] \div 16)
                     ELSE HexDigit(bytes[i \div 2] % 16)])

hex_decode(s) ==
    IF Len(s) % 2 = 1 \/ \E i \in 1..Len(s) : HexVal(s[i]) < 0
    THEN Err("hex")
    ELSE Ok(Tuple([i \in 1..(Len(s) \div 2) |->
                16 * HexVal(s[2 * i - 1]) + HexVal(s[2 * i])]))

\* str::trim_start_matches("0x"): every leading repetition of the prefix goes
RECURSIVE TrimStart0x(_)
TrimStart0x(s) ==
    IF Len(s) >= 2 /\ s[1] = Ch0 /\ s[2] = ChX
    THEN TrimStart0x(DropFirst(s, 2))
    ELSE s

\* ------------------------------------------------------------------------
\* The digests (library primitives).  SHA-256 and Keccak-256 are fixed,
\* deterministic maps from a byte vector to 32 bytes; the model keeps the
\* width and the determinism and stands a small mixing function in for the
\* compression function.
\* ------------------------------------------------------------------------
\* One step of the mixing is acc |-> (acc * mul + data[i] + i) % 256; the
\* steps over data[lo..hi] compose to one map acc |-> (a * acc + b) % 256,
\* returned as <<a, b>>.
Compose(l, r) == <<(r[1] * l[1]) % 256, (r[1] * l[2] + r[2]) % 256>>

RECURSIVE Steps(_, _, _, _)
Steps(data, lo, hi, mul) ==
    IF lo > hi THEN <<1, 0>>
    ELSE IF lo = hi THEN <<mul % 256, (data[lo] + lo) % 256>>
    ELSE Compose(Steps(data, lo, (lo + hi) \div 2, mul),
                 Steps(data, (lo + hi) \div 2 + 1, hi, mul))

Affine(f, init) == (f[1] * init + f[2]) % 256

Absorb(data, init, mul) == Affine(Steps(data, 1, Len(data), mul), init)

sha256(data) ==
    Tuple([k \in 1..32 |-> Absorb(data, (7 * k + Len(data) + 3) % 256, 2 * k + 29)])

Keccak256(data) ==
    Tuple([k \in 1..32 |-> Absorb(data, (11 * k + Len(data) + 5) % 256, 2 * k + 57)])

\* ------------------------------------------------------------------------
\* bs58::encode / bs58::decode (Bitcoin alphabet): base conversion on a
\* little-endian digit vector, one input symbol at a time
\* ------------------------------------------------------------------------
Alphabet ==
    << 49, 50, 51, 52, 53, 54, 55, 56, 57,
       65, 66, 67, 68, 69, 70, 71, 72, 74, 75, 76, 77, 78,
       80, 81, 82, 83, 84, 85, 86, 87, 88, 89, 90,
       97, 98, 99, 100, 101, 102, 103, 104, 105, 106, 107,
       109, 110, 111, 112, 113, 114, 115, 116, 117, 118, 119, 120, 121, 122 >>

AlphabetIndex(c) ==
    IF \E d \in 1..58 : Alphabet[d] = c
    THEN (CHOOSE d \in 1..58 : Alphabet[d] = c) - 1
    ELSE -1

\* One input symbol v enters the little-endian digit vector: every digit d
\* becomes (carry + d * mul) % base, the carry runs upward from v, and what is
\* left of it is appended.  CarryRange does the digits lo..hi and returns
\* <<new digits, carry out>>.
CarryDigit(c, base) == <<(<<c % base>>), c \div base>>

RECURSIVE CarryRange(_, _, _, _, _, _)
CarryUpper(digits, lo, hi, l, mul, base) ==
    Then(CarryRange(digits, lo, hi, l[2], mul, base),
         LAMBDA r : <<l[1] \o r[1], r[2]>>)

CarryRange(digits, lo, hi, carry, mul, base) ==
    IF lo > hi THEN <<(<<>>), carry>>
    ELSE IF lo = hi THEN CarryDigit(carry + digits[lo] * mul, base)
    ELSE Then(CarryRange(digits, lo, (lo + hi) \div 2, carry, mul, base),
              LAMBDA l : CarryUpper(digits, (lo + hi) \div 2 + 1, hi, l, mul, base))

RECURSIVE Spill(_, _)
Spill(carry, base) ==
    IF carry = 0 THEN <<>> ELSE <<carry % base>> \o Spill(carry \div base, base)

MulAdd(digits, v, mul, base) ==
    Then(CarryRange(digits, 1, Len(digits), v, mul, base),
         LAMBDA p : p[1] \o Spill(p[2], base))

\* The symbols input[lo..hi] enter one after the other, first to last
RECURSIVE ConvertRange(_, _, _, _, _, _)
ConvertRange(input, lo, hi, digits, mul, base) ==
    IF lo > hi THEN digits
    ELSE IF lo = hi THEN MulAdd(digits, input[lo], mul, base)
    ELSE Then(ConvertRange(input, lo, (lo + hi) \div 2, digits, mul, base),
              LAMBDA d : ConvertRange(input, (lo + hi) \div 2 + 1, hi, d, mul, base))

Convert(input, mul, base) == ConvertRange(input, 1, Len(input), <<>>, mul, base)

WithLeadingZeros(digits, zeros) == Reverse(digits \o Repeat(0, zeros))

bs58_encode(bytes) ==
    Then(WithLeadingZeros(Convert(bytes, 256, 58), LeadingCount(bytes, 0)),
         LAMBDA digits : Tuple([i \in 1..Len(digits) |-> Alphabet[digits[i] + 1]]))

bs58_decode(input) ==
    IF \E i \in 1..Len(input) : AlphabetIndex(input[i]) < 0
    THEN Err("InvalidCharacter")
    ELSE Ok(WithLeadingZeros(
                Convert(Tuple([i \in 1..Len(input) |-> AlphabetIndex(input[i])]), 58, 256),
                LeadingCount(input, Alphabet[1])))

\* ------------------------------------------------------------------------
\* The checksummed address codec
\* ------------------------------------------------------------------------
\* &sha256(&sha256(data))[0..4]
Checksum(data) == SubSeq(sha256(sha256(data)), 1, 4)

\* the checksum taken from a single digest
bs58_check_encode_single_digest(data) == bs58_encode(data \o SubSeq(sha256(data), 1, 4))

bs58_check_encode(data) == bs58_encode(data \o Checksum(data))

VerifyChecksum(data, checksum) ==
    IF Checksum(data) # checksum THEN Err("Invalid checksum") ELSE Ok(data)

\* the payload split off without the comparison of the checksum
bs58_check_decode_unverified(address) ==
    TryContext(bs58_decode(address), "Invalid base58 address", LAMBDA decoded :
        IF Len(decoded) < 4 THEN Err("Address too short")
        ELSE Ok(SubSeq(decoded, 1, Len(decoded) - 4)))

bs58_check_decode(address) ==
    TryContext(bs58_decode(address), "Invalid base58 address", LAMBDA decoded :
        IF Len(decoded) < 4 THEN Err("Address too short")
        ELSE VerifyChecksum(SubSeq(decoded, 1, Len(decoded) - 4),
                            SubSeq(decoded, Len(decoded) - 3, Len(decoded))))

tron_address_to_hex(address) ==
    Try(bs58_check_decode(address), LAMBDA bytes : Ok(hex_encode(bytes)))

hex_to_tron_address(hex_addr) ==
    TryContext(hex_decode(TrimStart0x(hex_addr)), "Invalid hex", LAMBDA bytes :
        Ok(bs58_check_encode(bytes)))

\* ------------------------------------------------------------------------
\* secp256k1 (library): the secret-key check and the public key.  A secret
\* key is 32 bytes, not zero and below the curve order; the public key is a
\* fixed function of the secret key, serialized as 0x04 || X || Y.
\* ------------------------------------------------------------------------
CurveOrder ==
    Repeat(255, 15) \o
    << 254, 186, 174, 220, 230, 175, 72, 160, 59,
       191, 210, 94, 140, 208, 54, 65, 65 >>

RECURSIVE LexLess(_, _)
LexLess(a, b) ==
    IF a = <<>> \/ b = <<>> THEN FALSE
    ELSE IF Head(a) # Head(b) THEN Head(a) < Head(b)
    ELSE LexLess(Tail(a), Tail(b))

SecretKey_from_slice(key_bytes) ==
    IF Len(key_bytes) = 32 /\ key_bytes # Repeat(0, 32) /\ LexLess(key_bytes, CurveOrder)
    THEN Ok(key_bytes)
    ELSE Err("Invalid private key")

serialize_uncompressed(secret_key) ==
    <<4>> \o Tuple([k \in 1..64 |-> Absorb(secret_key, (13 * k + 1) % 256, 2 * k + 3)])

Message_from_digest_slice(digest) ==
    IF Len(digest) = 32 THEN Ok(digest) ELSE Err("Invalid message")

\* ------------------------------------------------------------------------
\* Key-to-address derivation
\* ------------------------------------------------------------------------
\* the prefix, then the first 20 bytes of the digest
AddressBytesFirst20(hash) == <<65>> \o SubSeq(hash, 1, 20)

\* vec![0x41] extended by &hash[12..]

AddressBytes(hash) == <<65>> \o DropFirst(hash, 12)

private_key_to_tron_address(private_key) ==
    TryContext(hex_decode(TrimStart0x(private_key)), "Invalid private key hex",
      LAMBDA key_bytes :
        TryContext(SecretKey_from_slice(key_bytes), "Invalid private key",
          LAMBDA secret_key :
            Ok(bs58_check_encode(AddressBytes(
                 Keccak256(DropFirst(serialize_uncompressed(secret_key), 1)))))))

\* ------------------------------------------------------------------------
\* Constructor parameter encoder
\* ------------------------------------------------------------------------
\* format!("{:0>64}", s): a minimum width, never a truncation
PadLeft64(s) == IF Len(s) >= 64 THEN s ELSE Repeat(Ch0, 64 - Len(s)) \o s

\* format!("{:x}", n)
RECURSIVE LowerHex(_)
LowerHex(n) ==
    IF n < 16 THEN <<HexDigit(n)>> ELSE LowerHex(n \div 16) \o <<HexDigit(n % 16)>>

\* format!("{:0>64x}", n)
Word(n) == PadLeft64(LowerHex(n))

\* tron_address_to_hex(a)?, &hex[2..] and the padding: the word of one
\* address argument.  The slice panics on a text shorter than 2.
AddressParam(address) ==
    Try(tron_address_to_hex(address), LAMBDA addr_hex :
        IF Len(addr_hex) < 2 THEN Panic ELSE Ok(PadLeft64(DropFirst(addr_hex, 2))))

RECURSIVE OwnersData(_)
OwnersData(owners) ==
    IF owners = <<>> THEN Ok(<<>>)
    ELSE Try(AddressParam(Head(owners)), LAMBDA w :
             Try(OwnersData(Tail(owners)), LAMBDA rest : Ok(w \o rest)))

encode_constructor_params(usdt, owners, threshold) ==
    Try(AddressParam(usdt), LAMBDA usdt_param :
        Try(OwnersData(owners), LAMBDA owners_data :
            Ok(usdt_param \o Word(96) \o Word(threshold) \o Word(Len(owners))
               \o owners_data)))

\* ------------------------------------------------------------------------
\* Transaction signer.  lib is what sign_ecdsa_recoverable and
\* serialize_compact hand back: a recovery id and 64 bytes r || s.
\* ------------------------------------------------------------------------
\* the recovery id in the 27/28 convention
RecoveryByteShifted(recovery_id) == (recovery_id + 27) % 256

\* recovery_id.to_i32() as u8

RecoveryByte(recovery_id) == recovery_id % 256

sign_transaction(tx_id, private_key, lib) ==
    TryContext(hex_decode(TrimStart0x(private_key)), "Invalid private key hex",
      LAMBDA key_bytes :
        TryContext(hex_decode(tx_id), "Invalid tx_id hex",
          LAMBDA tx_id_bytes :
            TryContext(SecretKey_from_slice(key_bytes), "Invalid private key",
              LAMBDA secret_key :
                TryContext(Message_from_digest_slice(tx_id_bytes), "Invalid message",
                  LAMBDA message :
                    Ok(hex_encode(lib.sig_bytes \o <<RecoveryByte(lib.recovery_id)>>))))))

\* ------------------------------------------------------------------------
\* deploy_contract: the pieces between its requests
\* ------------------------------------------------------------------------
\* owners.split(',')
RECURSIVE Split(_)
Split(s) ==
    IF \E i \in 1..Len(s) : s[i] = ChComma
    THEN LET i == CHOOSE j \in 1..Len(s) :
                      s[j] = ChComma /\ \A k \in 1..(j - 1) : s[k] # ChComma
         IN  <<SubSeq(s, 1, i - 1)>> \o Split(SubSeq(s, i + 1, Len(s)))
    ELSE <<s>>

\* str::trim
IsSpace(c) == c \in {ChSpace, 9, 10, 11, 12, 13}
Trim(s) ==
    IF \A i \in 1..Len(s) : IsSpace(s[i]) THEN <<>>
    ELSE LET first == CHOOSE i \in 1..Len(s) :
                          ~IsSpace(s[i]) /\ \A k \in 1..(i - 1) : IsSpace(s[k])
             last == CHOOSE i \in 1..Len(s) :
                         ~IsSpace(s[i]) /\ \A k \in (i + 1)..Len(s) : IsSpace(s[k])
         IN  SubSeq(s, first, last)

ParseOwners(owners) ==
    LET parts == Split(owners) IN Tuple([i \in 1..Len(parts) |-> Trim(parts[i])])

\* the upper bound alone
ThresholdNoZeroCheck(threshold, len) == threshold > len

\* if threshold == 0 || threshold as usize > owner_list.len()

InvalidThreshold(threshold, len) == threshold = 0 \/ threshold > len

\* the error checks alone, the txID taken as it comes
ResponseWithoutTxIdCheck(response) ==
    IF response.result = "false" THEN Err("Failed to create transaction")
    ELSE IF response.has_error THEN Err("API Error")
    ELSE Ok(response.txid)

\* The checks on the parsed /wallet/deploycontract response, down to tx_id
CheckResponse(response) ==
    IF response.result = "false" THEN Err("Failed to create transaction")
    ELSE IF response.has_error THEN Err("API Error")
    ELSE IF response.transaction = "absent" /\ response.root_txid = "absent"
    THEN Err("No transaction in response")
    ELSE IF \/ response.transaction = "with_txid"
            \/ response.transaction = "absent" /\ response.root_txid = "string"
    THEN Ok(response.txid)
    ELSE Err("No txID in response")

\* ------------------------------------------------------------------------
\* Inputs
\* ------------------------------------------------------------------------
SeqsUpTo(S, k) == UNION {[1..j -> S] : j \in 0..k}

ByteVals == {0, 1, 65, 255}

\* two 21-byte binary addresses, a payload of one byte, one of 33 bytes
\* (32 after the prefix), one of 34 bytes, and the empty payload
BinA == <<65>> \o Tuple([i \in 1..20 |-> (17 * i) % 256])
BinB == <<65>> \o Tuple([i \in 1..20 |-> (200 + 3 * i) % 256])
Bin1 == <<65>>
Bin33 == <<65>> \o Tuple([i \in 1..32 |-> i])
Bin34 == <<65>> \o Tuple([i \in 1..33 |-> i])
Bin0 == <<>>

AddrA == bs58_check_encode(BinA)
AddrB == bs58_check_encode(BinB)
Addr1 == bs58_check_encode(Bin1)
Addr33 == bs58_check_encode(Bin33)
Addr34 == bs58_check_encode(Bin34)
Addr0 == bs58_check_encode(Bin0)
\* AddrA with its last character changed, and with a character outside
\* the alphabet
AddrBadSum == [AddrA EXCEPT ![Len(AddrA)] = IF @ = 50 THEN 51 ELSE 50]
AddrBadChar == [AddrA EXCEPT ![2] = 48]

Payloads == SeqsUpTo(ByteVals, MaxLen) \cup {BinA, Bin34}

\* '1', '2', 'z', '0' (not in the alphabet), a non-ASCII code
TextChars == {49, 50, 122, 48, 233}
MutChars == {49, 65, 108}
Mutations(t) == {[t EXCEPT ![i] = c] : i \in 1..Len(t), c \in MutChars}
TextInputs ==
    SeqsUpTo(TextChars, MaxTextLen)
    \cup {AddrA, Addr0, Addr34, AddrBadSum, AddrBadChar, <<49, 49, 49, 49>>}
    \cup Mutations(AddrA) \cup Mutations(Addr0) \cup Mutations(bs58_check_encode(<<0, 65>>))
ToHexInputs == {AddrA, Addr0, Addr34, AddrBadSum, AddrBadChar, <<49>>, <<>>}
HexInputs ==
    { hex_encode(BinA), <<Ch0, ChX>> \o hex_encode(BinB), <<>>, <<52>>, <<52, 49, 103, 103>> }

KeyOne == hex_encode(Repeat(0, 31) \o <<1>>)
KeyMid == hex_encode(Tuple([i \in 1..32 |-> (5 * i + 9) % 256]))
KeyOrderMinus1 == hex_encode([CurveOrder EXCEPT ![32] = 64])
KeyZero == hex_encode(Repeat(0, 32))
KeyStrings ==
    { KeyOne, KeyMid, KeyOrderMinus1,
      <<Ch0, ChX>> \o KeyOne,
      <<Ch0, ChX, Ch0, ChX>> \o KeyMid,
      [KeyMid EXCEPT ![1] = 65],
      KeyZero,
      hex_encode(CurveOrder),
      hex_encode(Repeat(255, 32)),
      hex_encode(<<1>>),
      hex_encode(Repeat(1, 33)),
      <<>>,
      <<122, 122>>,
      <<49, 50, 51>> }

TxGood == hex_encode(Tuple([i \in 1..32 |-> (3 * i) % 256]))
TxBad == <<103, 48>>
TxIds ==
    { TxGood, TxBad,
      hex_encode(Repeat(0, 32)),
      hex_encode(Repeat(7, 31)),
      hex_encode(Repeat(7, 33)),
      <<>>,
      <<Ch0, ChX>> \o hex_encode(Repeat(7, 32)) }

\* what the signing library can hand back: a recovery id of 0..3, r and s
SigR == {Repeat(1, 32), Tuple([i \in 1..32 |-> 255 - i])}
SigS == {Repeat(2, 32)}
LibSignatures ==
    {[recovery_id |-> v, sig_bytes |-> r \o s2] : v \in 0..3, r \in SigR, s2 \in SigS}

UsdtInputs == {AddrA, Addr1, Addr33, Addr34, Addr0, AddrBadSum}
OwnerLists ==
    SeqsUpTo({AddrA, AddrB}, MaxOwners)
    \cup { <<Addr34>>, <<AddrA, Addr34, AddrB>>, <<Addr33, Addr1>>, <<AddrB, AddrB, Addr34>>,
           <<Addr0>>, <<AddrA, Addr0>>, <<AddrBadSum>>, <<AddrA, AddrBadChar, Addr0>> }
Thresholds == 0..(MaxOwners + 1)
\* every token address with a few owner lists, every owner list with AddrA
ParamInputs ==
    (UsdtInputs \X {<<>>, <<AddrA>>, <<AddrB, AddrA, AddrA>>} \X {0, 1, 2})
    \cup ({AddrA} \X OwnerLists \X Thresholds)

Join(list, sep) ==
    Flatten([i \in 1..Len(list) |-> IF i = 1 THEN list[i] ELSE sep \o list[i]])
DeployKeys == {KeyOne, KeyZero}
DeployUsdt == {AddrA, AddrBadSum, Addr0}
DeployOwners ==
    { AddrA,
      Join(<<AddrA, AddrB>>, <<ChComma>>),
      Join(<<AddrB, AddrA>>, <<ChComma, ChSpace>>),
      Join(<<AddrA, AddrBadSum>>, <<ChComma>>),
      AddrA \o <<ChComma>>,
      <<>> }
DeployThresholds == 0..3
DeployAddresses ==
    DeployUsdt \cup UNION {{ParseOwners(o)[i] : i \in 1..Len(ParseOwners(o))} : o \in DeployOwners}

\* what the node can answer to /wallet/deploycontract, once parsed
Responses ==
    [ result : {"absent", "false", "other"},
      has_error : BOOLEAN,
      transaction : {"absent", "with_txid", "no_txid"},
      root_txid : {"absent", "string", "not_string"},
      txid : {TxGood, TxBad} ]
NoResponse ==
    [result |-> "absent", has_error |-> FALSE, transaction |-> "absent",
     root_txid |-> "absent", txid |-> <<>>]

\* ------------------------------------------------------------------------
\* State: one call of an operation on inputs drawn at the start
\* ------------------------------------------------------------------------
VARIABLES
    op, pc,
    data, text, private_key, usdt, owner_list, threshold, tx_id,  \* arguments
    lib,                \* what the signing library returned
    ret,                \* the call's result
    owners,             \* deploy_contract's --owners argument
    deployer, params,   \* deploy_contract's locals
    response,           \* the parsed /wallet/deploycontract response
    requests,           \* the endpoints posted to, in order
    signatures          \* the signatures sign_transaction has produced

Args == <<op, data, private_key, usdt, threshold, tx_id, owners>>
DeployLocals == <<deployer, params, response, requests, signatures>>
vars ==
    <<op, pc, data, text, private_key, usdt, owner_list, threshold, tx_id, lib, ret,
      owners, deployer, params, response, requests, signatures>>

NoRet == [ok |-> FALSE, error |-> "not called"]
NoLib == [recovery_id |-> 0, sig_bytes |-> <<>>]

InitCommon ==
    /\ pc = "call" /\ ret = NoRet /\ lib = NoLib
    /\ deployer = <<>> /\ params = <<>> /\ response = NoResponse
    /\ requests = <<>> /\ signatures = <<>>

InitCodec ==
    /\ InitCommon
    /\ private_key = <<>> /\ usdt = <<>> /\ owner_list = <<>> /\ threshold = 0
    /\ tx_id = <<>> /\ owners = <<>>
    /\ \/ op = "roundtrip" /\ data \in Payloads /\ text = <<>>
       \/ op = "decode" /\ data = <<>> /\ text \in TextInputs
       \/ op = "to_hex" /\ data = <<>> /\ text \in ToHexInputs
       \/ op = "to_base58" /\ data = <<>> /\ text \in HexInputs

InitKeys ==
    /\ InitCommon
    /\ data = <<>> /\ text = <<>> /\ usdt = <<>> /\ owner_list = <<>> /\ threshold = 0
    /\ owners = <<>>
    /\ private_key \in KeyStrings
    /\ \/ op = "address" /\ tx_id = <<>>
       \/ op = "sign" /\ tx_id \in TxIds

InitParams ==
    /\ InitCommon
    /\ op = "params"
    /\ data = <<>> /\ text = <<>> /\ private_key = <<>> /\ tx_id = <<>> /\ owners = <<>>
    /\ \E p \in ParamInputs : usdt = p[1] /\ owner_list = p[2] /\ threshold = p[3]

InitDeploy ==
    /\ InitCommon
    /\ data = <<>> /\ text = <<>> /\ tx_id = <<>>
    /\ \/ /\ op = "deploy"
          /\ private_key \in DeployKeys
          /\ usdt \in DeployUsdt
          /\ owners \in DeployOwners
          /\ threshold \in DeployThresholds
          /\ owner_list = <<>>
       \/ /\ op = "params"
          /\ private_key = <<>> /\ owners = <<>>
          /\ usdt \in DeployUsdt
          /\ owner_list \in {<<>>, <<AddrA>>, <<AddrA, AddrB>>}
          /\ threshold \in DeployThresholds

Init == InitCodec \/ InitKeys \/ InitParams \/ InitDeploy

\* ------------------------------------------------------------------------
\* The operations called on their own
\* ------------------------------------------------------------------------
\* bs58_check_encode(data): the first half of the round trip
CallEncode ==
    /\ op = "roundtrip" /\ pc = "call"
    /\ text' = bs58_check_encode(data)
    /\ pc' = "encoded"
    /\ UNCHANGED <<Args, owner_list, lib, ret, DeployLocals>>

\* bs58_check_decode(text), on a text given or on the one just encoded
CallDecode ==
    /\ \/ op = "roundtrip" /\ pc = "encoded"
       \/ op = "decode" /\ pc = "call"
    /\ ret' = bs58_check_decode(text)
    /\ pc' = "done"
    /\ UNCHANGED <<Args, owner_list, text, lib, DeployLocals>>

\* Commands::ToHex
CallToHex ==
    /\ op = "to_hex" /\ pc = "call"
    /\ ret' = tron_address_to_hex(text)
    /\ pc' = "done"
    /\ UNCHANGED <<Args, owner_list, text, lib, DeployLocals>>

\* Commands::ToBase58
CallToBase58 ==
    /\ op = "to_base58" /\ pc = "call"
    /\ ret' = hex_to_tron_address(text)
    /\ pc' = "done"
    /\ UNCHANGED <<Args, owner_list, text, lib, DeployLocals>>

\* Commands::Address
CallAddress ==
    /\ op = "address" /\ pc = "call"
    /\ ret' = private_key_to_tron_address(private_key)
    /\ pc' = "done"
    /\ UNCHANGED <<Args, owner_list, text, lib, DeployLocals>>

CallEncodeParams ==
    /\ op = "params" /\ pc = "call"
    /\ ret' = encode_constructor_params(usdt, owner_list, threshold)
    /\ pc' = "done"
    /\ UNCHANGED <<Args, owner_list, text, lib, DeployLocals>>

CallSign ==
    /\ op = "sign" /\ pc = "call"
    /\ \E l \in LibSignatures : \E signature \in {sign_transaction(tx_id, private_key, l)} :
         /\ ret' = signature
         /\ lib' = IF signature.ok THEN l ELSE NoLib
    /\ pc' = "done"
    /\ UNCHANGED <<Args, owner_list, text, DeployLocals>>

\* ------------------------------------------------------------------------
\* deploy_contract, one action for each stretch between two awaits or
\* accesses to the outside
\* ------------------------------------------------------------------------
Fail(r) == pc' = "failed" /\ ret' = r

\* lines 191-208: the deployer address, the owner list, the threshold check
DeployValidate ==
    /\ op = "deploy" /\ pc = "call"
    /\ \E d \in {private_key_to_tron_address(private_key)}, list \in {ParseOwners(owners)} :
           IF ~d.ok
           THEN Fail(d) /\ UNCHANGED <<deployer, owner_list>>
           ELSE /\ deployer' = d.value
                /\ owner_list' = list
                /\ IF InvalidThreshold(threshold, Len(list))
                   THEN Fail(Err("Invalid threshold: must be > 0 and <= number of owners"))
                   ELSE pc' = "load" /\ UNCHANGED ret
    /\ UNCHANGED <<Args, text, lib, params, response, requests, signatures>>

\* lines 210-216: the contract file is read and parsed
DeployLoadContract ==
    /\ op = "deploy" /\ pc = "load"
    /\ \/ Fail(Err("Failed to read contract JSON"))
       \/ Fail(Err("Failed to parse contract JSON"))
       \/ pc' = "encode" /\ UNCHANGED ret
    /\ UNCHANGED <<Args, owner_list, text, lib, DeployLocals>>

\* lines 218-237: the constructor parameters and the request body
DeployEncodeParams ==
    /\ op = "deploy" /\ pc = "encode"
    /\ \E p \in {encode_constructor_params(usdt, owner_list, threshold)} :
           IF ~p.ok THEN Fail(p) /\ UNCHANGED params
           ELSE /\ params' = p.value
                /\ \E deployer_hex \in {tron_address_to_hex(deployer)} :
                      IF ~deployer_hex.ok THEN Fail(deployer_hex)
                      ELSE pc' = "create" /\ UNCHANGED ret
    /\ UNCHANGED <<Args, owner_list, text, lib, deployer, response, requests, signatures>>

\* lines 241-249: POST /wallet/deploycontract
DeployCreateTransaction ==
    /\ op = "deploy" /\ pc = "create"
    /\ requests' = Append(requests, "/wallet/deploycontract")
    /\ pc' = "created"
    /\ UNCHANGED <<Args, owner_list, text, lib, ret, deployer, params, response, signatures>>

\* lines 247-290: the answer arrives (or not), is parsed and checked
DeployCheckResponse ==
    /\ op = "deploy" /\ pc = "created"
    /\ \/ Fail(Err("request failed")) /\ UNCHANGED <<response, tx_id>>
       \/ Fail(Err("Failed to parse response")) /\ UNCHANGED <<response, tx_id>>
       \/ \E r \in Responses :
            /\ response' = r
            /\ \E checked \in {CheckResponse(r)} :
                   IF checked.ok
                   THEN tx_id' = checked.value /\ pc' = "sign" /\ UNCHANGED ret
                   ELSE Fail(checked) /\ UNCHANGED tx_id
    /\ UNCHANGED <<op, data, private_key, usdt, threshold, owners, owner_list, text, lib,
                   deployer, params, requests, signatures>>

\* lines 292-301: the transaction id is signed
DeploySign ==
    /\ op = "deploy" /\ pc = "sign"
    /\ \E l \in LibSignatures : \E signature \in {sign_transaction(tx_id, private_key, l)} :
             IF signature.ok
             THEN /\ signatures' = Append(signatures, signature.value)
                  /\ lib' = l
                  /\ pc' = "broadcast" /\ UNCHANGED ret
             ELSE Fail(signature) /\ UNCHANGED <<signatures, lib>>
    /\ UNCHANGED <<Args, owner_list, text, deployer, params, response, requests>>

\* lines 303-311: POST /wallet/broadcasttransaction
DeployBroadcast ==
    /\ op = "deploy" /\ pc = "broadcast"
    /\ requests' = Append(requests, "/wallet/broadcasttransaction")
    /\ pc' = "broadcasted"
    /\ UNCHANGED <<Args, owner_list, text, lib, ret, deployer, params, response, signatures>>

\* lines 309-339: the broadcast's answer
DeployFinish ==
    /\ op = "deploy" /\ pc = "broadcasted"
    /\ \/ Fail(Err("request failed"))
       \/ Fail(Err("Broadcast failed"))
       \/ pc' = "done" /\ ret' = Ok(<<>>)
    /\ UNCHANGED <<Args, owner_list, text, lib, DeployLocals>>

NextCodec == CallEncode \/ CallDecode \/ CallToHex \/ CallToBase58

NextKeys == CallAddress \/ CallSign

NextParams == CallEncodeParams

NextDeploy ==
    \/ CallEncodeParams
    \/ DeployValidate
    \/ DeployLoadContract
    \/ DeployEncodeParams
    \/ DeployCreateTransaction
    \/ DeployCheckResponse
    \/ DeploySign
    \/ DeployBroadcast
    \/ DeployFinish

Next == NextCodec \/ NextKeys \/ NextParams \/ NextDeploy

SpecCodec == InitCodec /\ [][NextCodec]_vars
SpecKeys == InitKeys /\ [][NextKeys]_vars
SpecParams == InitParams /\ [][NextParams]_vars
SpecDeploy == InitDeploy /\ [][NextDeploy]_vars
Spec == Init /\ [][Next]_vars

\* ------------------------------------------------------------------------
\* Properties
\* ------------------------------------------------------------------------
InAlphabet(t) == \A i \in 1..Len(t) : \E d \in 1..58 : Alphabet[d] = t[i]

FormatErrors == {"Invalid base58 address", "Address too short"}

HasNoValue(r) == ~r.ok /\ "value" \notin DOMAIN r

\* the k-th 32-byte word of a hex blob, k counted from 0
WordAt(blob, k) == SubSeq(blob, 64 * k + 1, 64 * k + 64)

\* the 64 hex characters of a word whose value n is below 256
SmallWord(n) == Repeat(48, 62) \o <<HexDigit(n \div 16), HexDigit(n % 16)>>

\* C1: decoding the encoding of a payload of one byte or more succeeds and
\* gives back the payload, byte for byte, leading zero bytes included.
C1_RoundTrip ==
    (op = "roundtrip" /\ pc = "done" /\ Len(data) >= 1)
        => (ret.ok /\ ret.value = data /\ Len(ret.value) = Len(data))

\* a payload with leading zero bytes has gone through both halves
C1_Witness ==
    /\ op = "roundtrip" /\ pc = "done"
    /\ Len(data) = 3 /\ data[1] = 0 /\ data[2] = 0 /\ data[3] # 0
    /\ ret.ok

\* what C2 states of one text and the result of decoding it: bytes are what
\* the Base58 decoding of a text over the alphabet gives
C2_Gate(t, bytes, r) ==
    /\ r.ok => /\ InAlphabet(t)
               /\ Len(bytes) >= 4
               /\ r.value = SubSeq(bytes, 1, Len(bytes) - 4)
               /\ SubSeq(bytes, Len(bytes) - 3, Len(bytes))
                    = SubSeq(sha256(sha256(r.value)), 1, 4)
    /\ (~InAlphabet(t) \/ Len(bytes) < 4) => (~r.ok /\ r.error \in FormatErrors)
    /\ (/\ InAlphabet(t)
        /\ Len(bytes) >= 4
        /\ SubSeq(bytes, Len(bytes) - 3, Len(bytes))
             # SubSeq(sha256(sha256(SubSeq(bytes, 1, Len(bytes) - 4))), 1, 4))
          => (~r.ok /\ r.error = "Invalid checksum")
    /\ ~r.ok => HasNoValue(r)

\* C2: bs58_check_decode returns a payload only for a text over the alphabet
\* whose bytes are at least 4 long and end in the first 4 bytes of the double
\* SHA-256 of the rest; a character outside the alphabet or fewer than 4 bytes
\* is a format failure, a differing checksum a checksum failure, and no
\* failure carries a payload.
C2_IntegrityGate ==
    (op = "decode" /\ pc = "done")
        => \E bytes \in {IF InAlphabet(text) THEN bs58_decode(text).value ELSE <<>>} :
               C2_Gate(text, bytes, ret)

\* a text over the alphabet, long enough, is turned down for its checksum
C2_Witness ==
    /\ op = "decode" /\ pc = "done"
    /\ text = AddrBadSum
    /\ ~ret.ok /\ ret.error = "Invalid checksum"

\* the keys of the deploy runs that stand for a legal scalar
AcceptedKeys ==
    {k \in DeployKeys : Try(hex_decode(TrimStart0x(k)), LAMBDA b : SecretKey_from_slice(b)).ok}
        \cup {}

\* C3, as stated: encode_constructor_params returns no blob for a threshold of
\* 0 or above the number of owners.
C3_EncoderRejectsThreshold ==
    (op = "params" /\ pc = "done" /\ (threshold = 0 \/ threshold > Len(owner_list)))
        => ~ret.ok

\* C3, amended: the threshold check is deploy_contract's; once the private
\* key is accepted, a threshold of 0 or above the number of entries of the
\* owners argument ends the run with the threshold error, before the
\* parameters are encoded and before any request.
C3_DeployRejectsThreshold ==
    (/\ op = "deploy" /\ pc # "call"
     /\ private_key \in AcceptedKeys
     /\ (threshold = 0 \/ threshold > Len(Split(owners))))
        => /\ pc = "failed"
           /\ ret = Err("Invalid threshold: must be > 0 and <= number of owners")
           /\ params = <<>> /\ requests = <<>> /\ signatures = <<>>

\* a run with a threshold of 0 and two valid owners has been turned down
C3_Witness ==
    /\ op = "deploy" /\ pc = "failed"
    /\ private_key = KeyOne /\ threshold = 0 /\ Len(owner_list) = 2
    /\ ret = Err("Invalid threshold: must be > 0 and <= number of owners")

\* C4: in a blob that encode_constructor_params returns, the word at byte 32
\* is 96 and the word at byte 96 is the number of owners.
C4_OffsetInvariant ==
    (op = "params" /\ pc = "done" /\ ret.ok)
        => /\ WordAt(ret.value, 1) = SmallWord(96)
           /\ WordAt(ret.value, 3) = SmallWord(Len(owner_list))

\* the word of an address: its payload without the first byte, padded on the
\* left to exactly 32 bytes
C5_IsWordOf(word, payload) ==
    /\ Len(payload) >= 1 /\ Len(payload) <= 33
    /\ word = Repeat(48, 66 - 2 * Len(payload)) \o hex_encode(DropFirst(payload, 1))

\* C5: in a blob that encode_constructor_params returns, word 0 is the word of
\* the token address and word 4+i the word of the i-th owner, in input order.
C5_AddressWords ==
    (op = "params" /\ pc = "done" /\ ret.ok)
        => /\ C5_IsWordOf(WordAt(ret.value, 0), bs58_check_decode(usdt).value)
           /\ \A i \in 1..Len(owner_list) :
                 C5_IsWordOf(WordAt(ret.value, 3 + i), bs58_check_decode(owner_list[i]).value)

\* C6: a blob returned for n owners is (3 + 1 + n) * 64 hex characters long.
C6_BlobLength ==
    (op = "params" /\ pc = "done" /\ ret.ok)
        => Len(ret.value) = (3 + 1 + Len(owner_list)) * 64

\* C7: encode_constructor_params ends with a value or an error, never with a
\* panic.
C7_NoPanic ==
    (op = "params" /\ pc = "done") => ret # Panic

\* C8: the bytes sign_transaction hex-encodes are 65: the library's r and s,
\* 32 bytes each, then the library's recovery id, unchanged and within 0..3.
C8_SignatureLayout ==
    (op = "sign" /\ pc = "done" /\ ret.ok)
        => \E bytes \in {hex_decode(ret.value).value} :
              /\ Len(bytes) = 65
              /\ SubSeq(bytes, 1, 32) = SubSeq(lib.sig_bytes, 1, 32)
              /\ SubSeq(bytes, 33, 64) = SubSeq(lib.sig_bytes, 33, 64)
              /\ bytes[65] = lib.recovery_id
              /\ bytes[65] \in 0..3

\* a signature has been made with the highest recovery id
C8_Witness ==
    /\ op = "sign" /\ pc = "done" /\ ret.ok
    /\ lib.recovery_id = 3
    /\ tx_id = TxGood

\* the scalar a key string stands for, if it is a legal one
C9_Scalar(key) == Try(hex_decode(TrimStart0x(key)), LAMBDA b : SecretKey_from_slice(b))

\* what C9 states of the result r for a key whose scalar check gave k
C9_Shape(k, r) ==
    IF k.ok
    THEN /\ r.ok
         /\ \E addr \in {bs58_check_decode(r.value)},
               digest \in {Keccak256(SubSeq(serialize_uncompressed(k.value), 2, 65))} :
                /\ addr.ok
                /\ Len(addr.value) = 21
                /\ addr.value[1] = 65
                /\ SubSeq(addr.value, 2, 21) = SubSeq(digest, 13, 32)
    ELSE HasNoValue(r)

\* C9: for a valid key the address encoded is 21 bytes: 0x41, then bytes
\* 12..31 of the Keccak-256 digest of the 64 bytes X || Y; a key that is not
\* a legal scalar gives an error and no address.
C9_AddressShape ==
    (op = "address" /\ pc = "done")
        => \E k \in {C9_Scalar(private_key)} : C9_Shape(k, ret)

\* an address has been derived from a valid key
C9_Witness ==
    /\ op = "address" /\ pc = "done" /\ ret.ok
    /\ private_key = KeyMid

Count(seq, x) == Cardinality({i \in 1..Len(seq) : seq[i] = x})

\* the response carried a txID and no error indication
CarriedTxId(r) ==
    /\ r.result # "false"
    /\ ~r.has_error
    /\ \/ r.transaction = "with_txid"
       \/ r.transaction = "absent" /\ r.root_txid = "string"

\* what has been sent and signed is in order at every point of a run
C10_State ==
    op = "deploy" =>
        /\ requests # <<>> => requests[1] = "/wallet/deploycontract"
        /\ Len(signatures) <= 1
        /\ Count(requests, "/wallet/deploycontract") <= 1
        /\ Count(requests, "/wallet/broadcasttransaction") <= 1
        /\ signatures # <<>> => (response # NoResponse /\ CarriedTxId(response))
        /\ Count(requests, "/wallet/broadcasttransaction") = 1 =>
              (Len(signatures) = 1 /\ Len(requests) = 2)
        /\ pc = "failed" => ~ret.ok
        /\ pc = "done" => (ret.ok /\ Len(signatures) = 1 /\ Len(requests) = 2)
        /\ (response # NoResponse /\ ~CarriedTxId(response)) =>
              (pc = "failed" /\ signatures = <<>> /\ Len(requests) = 1)

\* a step that sends the first request finds the threshold within 1 and the
\* number of owners, and the token address and every owner decodable; a
\* failed run goes no further
C10_Step ==
    op = "deploy" =>
        /\ (requests = <<>> /\ requests' # <<>>) =>
              /\ threshold >= 1 /\ threshold <= Len(owner_list)
              /\ bs58_check_decode(usdt).ok
              /\ \A i \in 1..Len(owner_list) : bs58_check_decode(owner_list[i]).ok
        /\ pc = "failed" => (pc' = "failed" /\ requests' = requests /\ signatures' = signatures)

\* C10: in a run of deploy_contract, a request is sent only after the
\* threshold check and the decoding of the token address and of every owner
\* have succeeded; at most one signature is made and at most one broadcast
\* sent, and only after the deploycontract response carried a txID and no
\* error indication; a run that failed before ends with an error, without a
\* signature and without a broadcast.
C10_Ordering == []C10_State /\ [][C10_Step]_vars

\* a run has signed and broadcast after a response with a txID at its root
C10_Witness ==
    /\ op = "deploy" /\ pc = "done"
    /\ response.transaction = "absent" /\ response.root_txid = "string"
    /\ Len(signatures) = 1
    /\ requests = <<"/wallet/deploycontract", "/wallet/broadcasttransaction">>

====
